---- MODULE Spec2Model ----
(***************************************************************************)
(* Model of the Jira scraper (scraper.ts, concatenated in                  *)
(* src/src/transformer.ts lines 298-489): the progress file, the rate      *)
(* limiter, fetchPageWithRetry under p-retry, the pagination loop of       *)
(* scrapeProject and main, together with process crashes and restarts.     *)
(* Records of a project are identified by their offset in the project's    *)
(* server-side result list.  Times are in milliseconds.                    *)
(***************************************************************************)
EXTENDS Integers, Sequences, FiniteSets, TLC

\* ------------------------------------------------------------------ bounds
\* largest number of issues a project has on the server
MaxTotal == 4
\* largest limit given on the command line / in the configuration
MaxLimit == 3
\* page size the server serves (maxResults=50 in the request, scaled down)
maxResults == 2
\* number of requests of one process whose total elapsed time is tracked
MaxCounted == 3
\* largest number of comments of a raw issue
MaxComments == 2

\* --------------------------------------------------------- program constants
PROJECTS == <<"SPARK", "KAFKA">>
MIN_REQUEST_INTERVAL == 200
retries == 5
minTimeout == 2000
maxTimeout == 60000
DefaultRetryAfter == 60000

\* null / undefined of a number-valued slot, and NaN
Null == -1
NaN == -2

Sources == {PROJECTS[i] : i \in 1..Len(PROJECTS)}

Min(a, b) == IF a <= b THEN a ELSE b
Max(a, b) == IF a >= b THEN a ELSE b

RECURSIVE Pow2(_)
Pow2(n) == IF n <= 0 THEN 1 ELSE 2 * Pow2(n - 1)

RECURSIVE SumSeq(_)
SumSeq(s) == IF s = <<>> THEN 0 ELSE Head(s) + SumSeq(Tail(s))

\* ------------------------------------------------------------- environment
\* how long a request may take before its response (or error) arrives
RespTimes == {0, 250}

Digits == <<"0", "1", "2", "3", "4", "5", "6", "7", "8", "9">>
IsDigit(c) == \E d \in 1..10 : Digits[d] = c
DigitVal(c) == (CHOOSE d \in 1..10 : Digits[d] = c) - 1

\* parseInt(str, 10) on a string without leading blanks or sign: the value
\* of the longest prefix of digits, NaN when that prefix is empty
RECURSIVE ParseDigits(_, _)
ParseDigits(str, acc) ==
    IF str = <<>> \/ ~IsDigit(Head(str)) THEN acc
    ELSE ParseDigits(Tail(str), 10 * acc + DigitVal(Head(str)))
parseInt(str) ==
    IF str = <<>> \/ ~IsDigit(Head(str)) THEN NaN ELSE ParseDigits(str, 0)

\* values of the retry-after response header: absent, or a string
NoHeader == [present |-> FALSE, value |-> <<>>]
Header(str) == [present |-> TRUE, value |-> str]
RetryAfterHeaders ==
    {NoHeader, Header(<<>>), Header(<<"0">>), Header(<<"3">>),
     Header(<<"1", "2", "0">>), Header(<<"W", "e", "d">>)}

\* responses of one HTTP attempt; status 0 stands for a network-level error
\* (ECONNRESET, ETIMEDOUT, ECONNABORTED) with no response at all
Bodies == {"wrapped", "bare", "empty", "error"}
Responses ==
    {[status |-> 200, body |-> b, retryAfter |-> NoHeader] : b \in {"wrapped", "bare", "empty"}}
    \cup {[status |-> 429, body |-> "error", retryAfter |-> h] : h \in RetryAfterHeaders}
    \cup {[status |-> 503, body |-> "error", retryAfter |-> NoHeader]}
    \cup {[status |-> 0, body |-> "empty", retryAfter |-> NoHeader]}
    \cup {[status |-> 404, body |-> b, retryAfter |-> NoHeader] : b \in {"error", "empty"}}

VARIABLES
    total,          \* server: number of issues of each project
    progressFile,   \* progress.json: [state, map]
    rawFile,        \* data/raw/<project>.json: [state, issues]
    procState,      \* "down", "running", "raised", "done", "exit1"
    MAX_ISSUES,     \* --limit / config.maxIssuesPerProject
    progress,       \* in-memory progress mapping
    projIdx,        \* position of main's for loop in PROJECTS
    pc,             \* position inside main / scrapeProject / fetchPageWithRetry
    allIssues, startAt, totalFetched, projectLimit,
    attemptNumber,  \* p-retry attempt number of the current fetch
    data,           \* value fetchPageWithRetry resolved with
    sinceLast,      \* Date.now() - lastRequestTime, saturated
    stop,           \* which break ended the current scrapeProject call
    \* history variables
    runStart, pageCounts, fetches, persistedPages,
    nReq, lastGap, elapsed, retryLog, got4xx,
    inFlight,       \* HTTP requests sent and not yet settled
    returned,       \* projects whose scrapeProject call returned in this process
    \* transformer
    issue,          \* the raw issue the transformer is looking at
    tasks,          \* task_type of the tasks generated for it
    tpc,            \* position in transform's loop body
    \* pipeline (index.ts)
    ppc,            \* position of the pipeline script; "off" when it is not used
    forceRestart, skipScrape,   \* --force, --skip-scrape
    hasRawData,     \* main's hasRawData
    started         \* scripts the pipeline has started with runScript, in order

durable == <<total, progressFile, rawFile>>
memory == <<MAX_ISSUES, progress, projIdx, pc, allIssues, startAt, totalFetched,
            projectLimit, attemptNumber, data, sinceLast, stop>>
history == <<runStart, pageCounts, fetches, persistedPages,
             nReq, lastGap, elapsed, retryLog, got4xx, inFlight, returned>>
tvars == <<issue, tasks, tpc>>
pvars == <<ppc, forceRestart, skipScrape, hasRawData, started>>
vars == <<durable, procState, memory, history, tvars, pvars>>

\* ------------------------------------------------------------------ helpers
\* setTimeout(resolve, ms): a timer outside 1..2^31-1 (NaN included) fires
\* after 1 ms; otherwise the promise resolves after ms
delay(ms) == IF ms = NaN \/ ms < 1 \/ ms > 2147483647 THEN 1 ELSE ms

\* rate limiting: time the attempt sleeps before it stamps lastRequestTime
rateLimitWait_NoSleep(timeSinceLastRequest) == 0
rateLimitWait(timeSinceLastRequest) ==
    IF timeSinceLastRequest < MIN_REQUEST_INTERVAL
    THEN delay(MIN_REQUEST_INTERVAL - timeSinceLastRequest)
    ELSE 0

validateStatus(status) == status < 500 \/ status = 429

\* retryAfter of the 429 branch; a header that is the empty string is falsy
retryAfterMs(h) ==
    IF h.present /\ h.value # <<>>
    THEN (IF parseInt(h.value) = NaN THEN NaN ELSE parseInt(h.value) * 1000)
    ELSE DefaultRetryAfter

backoffDelay_Constant(k) == Min(Max(minTimeout, 1), maxTimeout)
\* p-retry hands {retries, minTimeout, maxTimeout} to retry.timeouts (factor 2,
\* no randomisation): the wait scheduled after failed attempt k
backoffDelay(k) == Min(Max(minTimeout, 1) * Pow2(k - 1), maxTimeout)

retryWait_Longest(slept, backoff) == Max(slept, backoff)
\* time between the arrival of a failed response and the start of the next
\* attempt: the sleep done inside the attempt, then p-retry's timeout
retryWait(slept, backoff) == slept + backoff

\* a variant that returns an empty body to the caller
AttemptOutcome_EmptyBodyReturned(resp) ==
    IF resp.status = 0 THEN [throws |-> TRUE, slept |-> 0, error |-> "Network error"]
    ELSE IF ~validateStatus(resp.status)
         THEN [throws |-> TRUE, slept |-> 0, error |-> "AxiosError"]
    ELSE IF resp.status = 429
         THEN [throws |-> TRUE, slept |-> delay(retryAfterMs(resp.retryAfter)),
               error |-> "Rate limited - retrying"]
    ELSE IF resp.status >= 500
         THEN [throws |-> TRUE, slept |-> 0, error |-> "Server error"]
    ELSE [throws |-> FALSE, slept |-> 0, error |-> "none"]

\* one run of the function given to pRetry, from the response on:
\* what it throws or returns, and how long it sleeps before throwing
AttemptOutcome(resp) ==
    IF resp.status = 0 THEN [throws |-> TRUE, slept |-> 0, error |-> "Network error"]
    ELSE IF ~validateStatus(resp.status)
         THEN [throws |-> TRUE, slept |-> 0, error |-> "AxiosError"]
    ELSE IF resp.status = 429
         THEN [throws |-> TRUE, slept |-> delay(retryAfterMs(resp.retryAfter)),
               error |-> "Rate limited - retrying"]
    ELSE IF resp.status >= 500
         THEN [throws |-> TRUE, slept |-> 0, error |-> "Server error"]
    ELSE IF resp.body = "empty"
         THEN [throws |-> TRUE, slept |-> 0, error |-> "Empty response"]
    ELSE [throws |-> FALSE, slept |-> 0, error |-> "none"]

\* the server's page at an offset: up to maxResults issues, by offset
ServerIssues(s, off) ==
    [i \in 1..Min(maxResults, Max(total[s] - off, 0)) |-> off + i - 1]

\* resp.data of a response with a body: the search result object, a bare
\* array of issues, or an error document
ResponseData(resp, s, off) ==
    IF resp.status = 200 /\ resp.body = "wrapped"
    THEN [kind |-> "object", issues |-> ServerIssues(s, off)]
    ELSE IF resp.status = 200 /\ resp.body = "bare"
    THEN [kind |-> "array", issues |-> ServerIssues(s, off)]
    ELSE [kind |-> "error", issues |-> <<>>]

\* data.issues || []: only an object has the property issues
issuesOf(d) == IF d.kind = "object" THEN d.issues ELSE <<>>

pageIsEmpty_Never(issues) == FALSE
\* issues.length === 0
pageIsEmpty(issues) == Len(issues) = 0

initialStartAt_FromZero(entry) == 0
\* progress[project]?.lastStartAt || 0
initialStartAt(entry) == IF entry = Null \/ entry = 0 THEN 0 ELSE entry

\* PER_PROJECT_LIMITS?.[project] ?? MAX_ISSUES
resolveLimit(perProject, maxIssues) ==
    IF perProject # Null THEN perProject ELSE maxIssues

limitReached_Exceeded(limit, fetched) == limit # Null /\ limit # 0 /\ fetched > limit
\* projectLimit && totalFetched >= projectLimit
limitReached(limit, fetched) == limit # Null /\ limit # 0 /\ fetched >= limit

addFetched_CountPages(fetched, n) == fetched + 1
\* totalFetched += issues.length
addFetched(fetched, n) == fetched + n

initialFetched_FromCursor(cursor) == cursor
\* let totalFetched = 0, whatever the cursor the run starts from
initialFetched(cursor) == 0

requestOffset_PerAttempt(off, attempt) == off + (attempt - 1) * maxResults
\* the url is built once per page, before fetchPageWithRetry is called: every
\* attempt of the fetch requests the same startAt
requestOffset(off, attempt) == off

settle_Never(reqs, r) == reqs
\* axios.get settles (response, error or the 30 s timeout that aborts the
\* request): the request is no longer in flight
settle(reqs, r) == reqs \ {r}

updateProgress_OnlyCurrent(p, s, c) == [t \in DOMAIN p |-> IF t = s THEN c ELSE Null]
\* progress[project] = { lastStartAt: startAt }
updateProgress(p, s, c) == [p EXCEPT ![s] = c]

rawContents_Append(previous, issues) == previous \o issues
\* fs.writeFileSync(filePath, JSON.stringify(allIssues)) replaces the file
rawContents(previous, issues) == issues

advance_SkipOne(cursor, n) == cursor + n + 1
\* startAt += issues.length
advance(cursor, n) == cursor + n

Sat(t) == Min(t, MIN_REQUEST_INTERVAL)
ElapsedCap == (MaxCounted - 1) * MIN_REQUEST_INTERVAL

EmptyProgress == [s \in Sources |-> Null]
NoData == [kind |-> "none", issues |-> <<>>]
NoRetry == [k |-> 0, status |-> 0, body |-> "none", retryAfter |-> NoHeader,
            slept |-> 0, waited |-> 0]
NoGap == [gap |-> 0, slept |-> 0]

\* outcomes of fs.writeFileSync: written; failed before the file was opened
\* (file unchanged); failed after it was opened with flag 'w' (file truncated)
WriteOutcomes == {"ok", "unchanged", "truncated"}

\* p-retry retries while timeouts are left: attempts 1..retries can be retried
mayRetry(attempt) == attempt <= retries

is4xx(status) == status >= 400 /\ status < 500 /\ status # 429

LimitChoices == {Null} \cup (0..MaxLimit)

cur == PROJECTS[projIdx]

mainLoopContinues_UnlessFailed(idx) == idx <= Len(PROJECTS) /\ stop # "FetchFailed"
\* for (const project of PROJECTS): another project is left
mainLoopContinues(idx) == idx <= Len(PROJECTS)

nextAttempt_Stuck(k) == k
\* p-retry numbers the attempts 1, 2, ...
nextAttempt(k) == k + 1

\* ------------------------------------------------------------------- state
FreshMemory ==
    /\ MAX_ISSUES' = Null
    /\ progress' = EmptyProgress
    /\ projIdx' = 1
    /\ pc' = "main"
    /\ allIssues' = <<>>
    /\ startAt' = 0
    /\ totalFetched' = 0
    /\ projectLimit' = Null
    /\ attemptNumber' = 0
    /\ data' = NoData
    /\ sinceLast' = MIN_REQUEST_INTERVAL
    /\ stop' = "none"

FreshHistory ==
    /\ runStart' = 0
    /\ pageCounts' = <<>>
    /\ fetches' = 0
    /\ nReq' = 0
    /\ lastGap' = NoGap
    /\ elapsed' = 0
    /\ retryLog' = NoRetry
    /\ got4xx' = FALSE
    /\ inFlight' = {}
    /\ returned' = {}

ScraperInit ==
    /\ total \in {[s \in Sources |-> t] : t \in (MaxTotal - 1)..MaxTotal}
    /\ progressFile \in {[state |-> st, map |-> EmptyProgress] : st \in {"absent", "malformed"}}
    /\ rawFile = [s \in Sources |-> [state |-> "absent", issues |-> <<>>]]
    /\ procState = "down"
    /\ MAX_ISSUES = Null
    /\ progress = EmptyProgress
    /\ projIdx = 1
    /\ pc = "main"
    /\ allIssues = <<>>
    /\ startAt = 0
    /\ totalFetched = 0
    /\ projectLimit = Null
    /\ attemptNumber = 0
    /\ data = NoData
    /\ sinceLast = MIN_REQUEST_INTERVAL
    /\ stop = "none"
    /\ runStart = 0
    /\ pageCounts = <<>>
    /\ fetches = 0
    /\ persistedPages = [s \in Sources |-> <<>>]
    /\ nReq = 0
    /\ lastGap = NoGap
    /\ elapsed = 0
    /\ retryLog = NoRetry
    /\ got4xx = FALSE
    /\ inFlight = {}
    /\ returned = {}

\* the transformer is a separate script: it does not run in the scraper
NoIssue == [summaryLen |-> 0, descLen |-> 0, descClean |-> 0, priority |-> "",
            resolution |-> "", comments |-> 0]

\* the scraper and the transformer run on their own, without the pipeline
PipelineOff ==
    /\ ppc = "off"
    /\ forceRestart = FALSE
    /\ skipScrape = FALSE
    /\ hasRawData = FALSE
    /\ started = <<>>

Init ==
    /\ ScraperInit
    /\ issue = NoIssue
    /\ tasks = <<>>
    /\ tpc = "idle"
    /\ PipelineOff

\* ----------------------------------------------------------------- actions
\* the process is started: CLI arguments, progress load, lastRequestTime = 0,
\* then main() is called.  JSON.parse of a malformed file throws at module
\* level and the process dies before main.
Startup ==
    /\ UNCHANGED <<tvars, pvars>>
    /\ procState # "running"
    /\ IF progressFile.state = "malformed"
       THEN /\ procState' = "raised"
            /\ FreshMemory
       ELSE /\ procState' = "running"
            /\ \E lim \in {Null, MaxLimit} : MAX_ISSUES' = lim
            /\ progress' = IF progressFile.state = "valid" THEN progressFile.map
                           ELSE EmptyProgress
            /\ projIdx' = 1
            /\ pc' = "main"
            /\ allIssues' = <<>>
            /\ startAt' = 0
            /\ totalFetched' = 0
            /\ projectLimit' = Null
            /\ attemptNumber' = 0
            /\ data' = NoData
            /\ sinceLast' = MIN_REQUEST_INTERVAL
            /\ stop' = "none"
    /\ FreshHistory
    /\ UNCHANGED <<durable, persistedPages>>

\* main's for loop calls scrapeProject(project): the locals are initialised
ScrapeStart ==
    /\ UNCHANGED <<tvars, pvars>>
    /\ procState = "running" /\ pc = "main" /\ mainLoopContinues(projIdx)
    /\ allIssues' = <<>>
    /\ startAt' = initialStartAt(progress[cur])
    /\ totalFetched' = initialFetched(startAt')
    /\ \E perProject \in LimitChoices :
          projectLimit' = resolveLimit(perProject, MAX_ISSUES)
    /\ pc' = "loop"
    /\ stop' = "none"
    /\ runStart' = startAt'
    /\ pageCounts' = <<>>
    /\ fetches' = 0
    /\ UNCHANGED <<durable, procState, MAX_ISSUES, progress, projIdx, attemptNumber,
                   data, sinceLast, persistedPages, nReq, lastGap, elapsed,
                   retryLog, got4xx, inFlight, returned>>

\* main's for loop is over: the process ends normally
MainDone ==
    /\ UNCHANGED <<tvars, pvars>>
    /\ procState = "running" /\ pc = "main" /\ ~mainLoopContinues(projIdx)
    /\ procState' = "done"
    /\ FreshMemory
    /\ FreshHistory
    /\ UNCHANGED <<durable, persistedPages>>

\* top of the while loop: the limit check, then the call of fetchPageWithRetry
LoopTop ==
    /\ UNCHANGED <<tvars, pvars>>
    /\ procState = "running" /\ pc = "loop"
    /\ IF limitReached(projectLimit, totalFetched)
       THEN /\ stop' = "LimitReached"
            /\ pc' = "finish"
            /\ UNCHANGED <<attemptNumber, fetches, got4xx>>
       ELSE /\ pc' = "acquire"
            /\ attemptNumber' = 1
            /\ fetches' = fetches + 1
            /\ got4xx' = FALSE
            /\ UNCHANGED stop
    /\ UNCHANGED <<durable, procState, MAX_ISSUES, progress, projIdx, allIssues,
                   startAt, totalFetched, projectLimit, data, sinceLast,
                   runStart, pageCounts, persistedPages, nReq, lastGap, elapsed,
                   retryLog, inFlight, returned>>

\* one attempt begins: rate limiting, lastRequestTime = Date.now(), and the
\* request is sent
Acquire ==
    /\ UNCHANGED <<tvars, pvars>>
    /\ procState = "running" /\ pc = "acquire"
    /\ LET gap == sinceLast + rateLimitWait(sinceLast) IN
         /\ lastGap' = [gap |-> gap, slept |-> rateLimitWait(sinceLast)]
         /\ elapsed' = IF nReq = 0 THEN 0
                       ELSE IF nReq < MaxCounted THEN Min(elapsed + gap, ElapsedCap)
                       ELSE elapsed
    /\ nReq' = Min(nReq + 1, MaxCounted)
    /\ sinceLast' = 0
    /\ retryLog' = NoRetry
    /\ inFlight' = inFlight \cup {[project |-> cur,
                                   off |-> requestOffset(startAt, attemptNumber)]}
    /\ pc' = "inflight"
    /\ UNCHANGED <<durable, procState, MAX_ISSUES, progress, projIdx, allIssues,
                   startAt, totalFetched, projectLimit, attemptNumber, data, stop,
                   runStart, pageCounts, fetches, persistedPages, got4xx, returned>>

\* a variant that skips the page whose fetch failed
Respond_SkipFailedPage(resp, d) ==
    /\ UNCHANGED <<tvars, pvars>>
    /\ procState = "running" /\ pc = "inflight"
    /\ got4xx' = (got4xx \/ is4xx(resp.status))
    /\ inFlight' = settle(inFlight, [project |-> cur,
                                     off |-> requestOffset(startAt, attemptNumber)])
    /\ LET out == AttemptOutcome(resp) IN
       IF ~out.throws
       THEN /\ data' = ResponseData(resp, cur, requestOffset(startAt, attemptNumber))
            /\ pc' = "process"
            /\ sinceLast' = Sat(sinceLast + d)
            /\ attemptNumber' = 0
            /\ UNCHANGED <<retryLog, stop>>
       ELSE IF mayRetry(attemptNumber)
       THEN /\ LET w == retryWait(out.slept, backoffDelay(attemptNumber)) IN
                 /\ retryLog' = [k |-> attemptNumber, status |-> resp.status,
                                 body |-> resp.body, retryAfter |-> resp.retryAfter,
                                 slept |-> out.slept, waited |-> w]
                 /\ sinceLast' = Sat(sinceLast + d + w)
            /\ attemptNumber' = nextAttempt(attemptNumber)
            /\ pc' = "acquire"
            /\ UNCHANGED <<data, stop>>
       ELSE /\ stop' = "FetchFailed"
            /\ pc' = "finish"
            /\ sinceLast' = Sat(sinceLast + d + out.slept)
            /\ attemptNumber' = 0
            /\ UNCHANGED <<retryLog, data>>
    /\ startAt' = IF AttemptOutcome(resp).throws /\ ~mayRetry(attemptNumber)
                  THEN startAt + maxResults ELSE startAt
    /\ UNCHANGED <<durable, procState, MAX_ISSUES, progress, projIdx, allIssues,
                   totalFetched, projectLimit,
                   runStart, pageCounts, fetches, persistedPages, nReq, lastGap, elapsed,
                   returned>>

\* the response (or network error) of the request in flight arrives after d ms;
\* the attempt returns the body or throws, p-retry schedules the next attempt
\* or rejects, and scrapeProject's catch breaks out of the loop
Respond(resp, d) ==
    /\ UNCHANGED <<tvars, pvars>>
    /\ procState = "running" /\ pc = "inflight"
    /\ got4xx' = (got4xx \/ is4xx(resp.status))
    /\ inFlight' = settle(inFlight, [project |-> cur,
                                     off |-> requestOffset(startAt, attemptNumber)])
    /\ LET out == AttemptOutcome(resp) IN
       IF ~out.throws
       THEN /\ data' = ResponseData(resp, cur, requestOffset(startAt, attemptNumber))
            /\ pc' = "process"
            /\ sinceLast' = Sat(sinceLast + d)
            /\ attemptNumber' = 0
            /\ UNCHANGED <<retryLog, stop>>
       ELSE IF mayRetry(attemptNumber)
       THEN /\ LET w == retryWait(out.slept, backoffDelay(attemptNumber)) IN
                 /\ retryLog' = [k |-> attemptNumber, status |-> resp.status,
                                 body |-> resp.body, retryAfter |-> resp.retryAfter,
                                 slept |-> out.slept, waited |-> w]
                 /\ sinceLast' = Sat(sinceLast + d + w)
            /\ attemptNumber' = nextAttempt(attemptNumber)
            /\ pc' = "acquire"
            /\ UNCHANGED <<data, stop>>
       ELSE /\ stop' = "FetchFailed"
            /\ pc' = "finish"
            /\ sinceLast' = Sat(sinceLast + d + out.slept)
            /\ attemptNumber' = 0
            /\ UNCHANGED <<retryLog, data>>
    /\ UNCHANGED <<durable, procState, MAX_ISSUES, progress, projIdx, allIssues,
                   startAt, totalFetched, projectLimit,
                   runStart, pageCounts, fetches, persistedPages, nReq, lastGap, elapsed,
                   returned>>

\* the page is handled: empty page breaks; otherwise the issues are appended,
\* the counters advance, progress is saved, and the limit is checked again.
\* When writeFileSync throws, the exception leaves scrapeProject and main, and
\* main().catch ends the process with exit code 1.
ProcessPage(w) ==
    /\ UNCHANGED <<tvars, pvars>>
    /\ procState = "running" /\ pc = "process"
    /\ LET issues == issuesOf(data)
           n == Len(issues)
           newStart == advance(startAt, n)
           newProgress == updateProgress(progress, cur, newStart)
       IN
       IF pageIsEmpty(issues)
       THEN /\ w = "ok"
            /\ stop' = "Exhausted"
            /\ pc' = "finish"
            /\ data' = NoData
            /\ got4xx' = FALSE
            /\ UNCHANGED <<durable, procState, MAX_ISSUES, progress, projIdx, allIssues,
                           startAt, totalFetched, projectLimit, attemptNumber, sinceLast,
                           runStart, pageCounts, fetches, persistedPages, nReq, lastGap,
                           elapsed, retryLog, inFlight, returned>>
       ELSE IF w = "ok"
       THEN /\ allIssues' = allIssues \o issues
            /\ totalFetched' = addFetched(totalFetched, n)
            /\ startAt' = newStart
            /\ progress' = newProgress
            /\ pageCounts' = Append(pageCounts, n)
            /\ progressFile' = [state |-> "valid", map |-> newProgress]
            /\ persistedPages' = [persistedPages EXCEPT ![cur] =
                                     Append(@, [off |-> startAt, cnt |-> n])]
            /\ IF limitReached(projectLimit, addFetched(totalFetched, n))
               THEN stop' = "LimitReached" /\ pc' = "finish"
               ELSE stop' = stop /\ pc' = "loop"
            /\ data' = NoData
            /\ got4xx' = FALSE
            /\ UNCHANGED <<total, rawFile, procState, MAX_ISSUES, projIdx, projectLimit,
                           attemptNumber, sinceLast, runStart, fetches, nReq, lastGap,
                           elapsed, retryLog, inFlight, returned>>
       ELSE /\ progressFile' = IF w = "truncated"
                               THEN [state |-> "malformed", map |-> EmptyProgress]
                               ELSE progressFile
            /\ procState' = "exit1"
            /\ FreshMemory
            /\ FreshHistory
            /\ UNCHANGED <<total, rawFile, persistedPages>>

\* after the loop: the raw file of the project is written and scrapeProject
\* returns to main's for loop; a throwing writeFileSync ends the process
Finish(w) ==
    /\ UNCHANGED <<tvars, pvars>>
    /\ procState = "running" /\ pc = "finish"
    /\ IF w = "ok"
       THEN /\ rawFile' = [rawFile EXCEPT ![cur] =
                               [state |-> "valid",
                                issues |-> rawContents(rawFile[cur].issues, allIssues)]]
            /\ returned' = returned \cup {cur}
            /\ projIdx' = projIdx + 1
            /\ pc' = "main"
            /\ got4xx' = FALSE
            /\ UNCHANGED <<total, progressFile, procState, MAX_ISSUES, progress, allIssues,
                           startAt, totalFetched, projectLimit, attemptNumber, data,
                           sinceLast, stop, runStart, pageCounts, fetches,
                           persistedPages, nReq, lastGap, elapsed, retryLog, inFlight>>
       ELSE /\ rawFile' = IF w = "truncated"
                          THEN [rawFile EXCEPT ![cur] = [state |-> "malformed", issues |-> <<>>]]
                          ELSE rawFile
            /\ procState' = "exit1"
            /\ FreshMemory
            /\ FreshHistory
            /\ UNCHANGED <<total, progressFile, persistedPages>>

\* the process is terminated from outside (Ctrl+C, kill): memory is lost,
\* the files stay as they are
Crash ==
    /\ UNCHANGED <<tvars, pvars>>
    /\ procState = "running"
    /\ procState' = "down"
    /\ FreshMemory
    /\ FreshHistory
    /\ UNCHANGED <<durable, persistedPages>>

Next ==
    \/ Startup
    \/ ScrapeStart
    \/ MainDone
    \/ LoopTop
    \/ Acquire
    \/ \E resp \in Responses, d \in RespTimes : Respond(resp, d)
    \/ \E w \in WriteOutcomes : ProcessPage(w)
    \/ \E w \in WriteOutcomes : Finish(w)
    \/ Crash

Spec == Init /\ [][Next]_vars

\* steps of a running process; the event loop runs them whenever they are due
RunStep ==
    \/ ScrapeStart
    \/ MainDone
    \/ LoopTop
    \/ Acquire
    \/ \E resp \in Responses, d \in RespTimes : Respond(resp, d)
    \/ \E w \in WriteOutcomes : ProcessPage(w)
    \/ \E w \in WriteOutcomes : Finish(w)

\* one run of the script, not interrupted from outside
LiveNext ==
    \/ (procState = "down" /\ Startup)
    \/ ScrapeStart
    \/ MainDone
    \/ LoopTop
    \/ Acquire
    \/ \E resp \in Responses, d \in RespTimes : Respond(resp, d)
    \/ \E w \in WriteOutcomes : ProcessPage(w)
    \/ \E w \in WriteOutcomes : Finish(w)

SpecLive == Init /\ [][LiveNext]_vars /\ WF_vars(RunStep)

\* -------------------------------------------------------------- transformer
\* raw issues by what the filter and the task generation look at: trimmed
\* lengths of summary and description, length of the cleaned description,
\* names of priority and resolution ("" when absent), number of comments
TitleLens == {0, 10, 11}
DescLens == {0, 20, 21, 50, 51, 100, 101}
RawIssues ==
    {i \in [summaryLen : TitleLens, descLen : DescLens, descClean : DescLens,
            priority : {"", "Major"}, resolution : {"", "Fixed"},
            comments : 0..MaxComments] : i.descClean <= i.descLen}

isQualityIssue(i) ==
    LET hasTitle == i.summaryLen > 10
        hasContent == i.descLen > 20 \/ i.comments > 0
    IN hasTitle /\ hasContent

generateTrainingTasks(i) ==
    LET priority == IF i.priority = "" THEN "Unknown" ELSE i.priority IN
    (IF i.descClean > 50 THEN <<"summarization">> ELSE <<>>)
    \o <<"classification">>
    \o (IF priority # "Unknown" THEN <<"priority_classification">> ELSE <<>>)
    \o <<"question_answering">>
    \o (IF i.resolution # "" THEN <<"resolution_prediction">> ELSE <<>>)
    \o (IF i.comments > 0 THEN <<"conversation">> ELSE <<>>)
    \o (IF i.descClean > 100 THEN <<"extraction">> ELSE <<>>)

scraperVars == <<durable, procState, memory, history>>

TransformInit ==
    /\ ScraperInit
    /\ issue \in RawIssues
    /\ tasks = <<>>
    /\ tpc = "filter"
    /\ PipelineOff

\* transform's loop body: the quality filter skips the issue ...
TransformFilter ==
    /\ tpc = "filter"
    /\ tpc' = IF isQualityIssue(issue) THEN "generate" ELSE "skipped"
    /\ UNCHANGED <<issue, tasks, scraperVars, pvars>>

\* ... or its tasks are generated and written
TransformWrite ==
    /\ tpc = "generate"
    /\ tasks' = generateTrainingTasks(issue)
    /\ tpc' = "written"
    /\ UNCHANGED <<issue, scraperVars, pvars>>

TransformNext ==
    \/ TransformFilter
    \/ TransformWrite

SpecTransform == TransformInit /\ [][TransformNext]_vars

\* ----------------------------------------------------------------- pipeline
\* persisted cursor of a project: the entry of a loadable progress file, 0 when
\* the project has no entry
Cursor(file, s) == IF file.state = "valid" /\ file.map[s] # Null THEN file.map[s] ELSE 0

\* files the pipeline can find: what earlier runs of the scraper left
LeftProgress ==
    {[state |-> "absent", map |-> EmptyProgress],
     [state |-> "malformed", map |-> EmptyProgress],
     [state |-> "valid", map |-> [EmptyProgress EXCEPT ![PROJECTS[1]] = maxResults]]}

LeftRaw ==
    {[s \in Sources |-> [state |-> "absent", issues |-> <<>>]],
     [s \in Sources |-> IF s = PROJECTS[1]
                        THEN [state |-> "valid", issues |-> <<>>]
                        ELSE [state |-> "absent", issues |-> <<>>]]}

PipelineInit ==
    /\ total \in {[s \in Sources |-> t] : t \in (MaxTotal - 1)..MaxTotal}
    /\ progressFile \in LeftProgress
    /\ rawFile \in LeftRaw
    /\ persistedPages = [s \in Sources |->
                            IF Cursor(progressFile, s) = 0 THEN <<>>
                            ELSE <<[off |-> 0, cnt |-> Cursor(progressFile, s)]>>]
    /\ procState = "down"
    /\ MAX_ISSUES = Null
    /\ progress = EmptyProgress
    /\ projIdx = 1
    /\ pc = "main"
    /\ allIssues = <<>>
    /\ startAt = 0
    /\ totalFetched = 0
    /\ projectLimit = Null
    /\ attemptNumber = 0
    /\ data = NoData
    /\ sinceLast = MIN_REQUEST_INTERVAL
    /\ stop = "none"
    /\ runStart = 0
    /\ pageCounts = <<>>
    /\ fetches = 0
    /\ nReq = 0
    /\ lastGap = NoGap
    /\ elapsed = 0
    /\ retryLog = NoRetry
    /\ got4xx = FALSE
    /\ inFlight = {}
    /\ returned = {}
    /\ issue = NoIssue
    /\ tasks = <<>>
    /\ tpc = "idle"
    /\ ppc = "load"
    /\ forceRestart \in BOOLEAN
    /\ skipScrape \in BOOLEAN
    /\ hasRawData = FALSE
    /\ started = <<>>

otherThanPipeline == <<total, procState, memory, runStart, pageCounts, fetches,
                       nReq, lastGap, elapsed, retryLog, got4xx, inFlight, returned, tvars>>

\* the pipeline script is loaded: with --force an existing progress.json is
\* unlinked; when unlinkSync throws the script dies before main
PipelineLoad(u) ==
    /\ ppc = "load"
    /\ IF forceRestart /\ progressFile.state # "absent"
       THEN IF u = "ok"
            THEN /\ progressFile' = [state |-> "absent", map |-> EmptyProgress]
                 /\ persistedPages' = [s \in Sources |-> <<>>]
                 /\ ppc' = "main"
            ELSE /\ ppc' = "failed"
                 /\ UNCHANGED <<progressFile, persistedPages>>
       ELSE /\ u = "ok"
            /\ ppc' = "main"
            /\ UNCHANGED <<progressFile, persistedPages>>
    /\ UNCHANGED <<otherThanPipeline, rawFile, forceRestart, skipScrape, hasRawData, started>>

\* the directory data/raw holds at least one .json file
rawDataExists(raw) == \E s \in Sources : raw[s].state # "absent"

\* main of the pipeline up to the first await: the scraper is started with
\* runScript unless --skip-scrape is given and raw data exists
PipelineMain ==
    /\ ppc = "main"
    /\ hasRawData' = rawDataExists(rawFile)
    /\ IF ~skipScrape \/ ~hasRawData'
       THEN /\ started' = Append(started, "scraper")
            /\ ppc' = "scraper"
       ELSE /\ ppc' = "scraped"
            /\ UNCHANGED started
    /\ UNCHANGED <<otherThanPipeline, durable, persistedPages, forceRestart, skipScrape>>

scraperResolved_Always(state) == TRUE
\* exec's callback gets no error when the child exited with code 0
scraperResolved(state) == state = "done"

\* the scraper child has exited: runScript resolves, or it rejects and
\* main().catch ends the pipeline with exit code 1
PipelineScraperExit ==
    /\ ppc = "scraper"
    /\ procState \in {"done", "exit1", "raised"}
    /\ ppc' = IF scraperResolved(procState) THEN "scraped" ELSE "failed"
    /\ UNCHANGED <<otherThanPipeline, durable, persistedPages, forceRestart, skipScrape,
                   hasRawData, started>>

\* the transformer is started with runScript
PipelineRunTransformer ==
    /\ ppc = "scraped"
    /\ started' = Append(started, "transformer")
    /\ ppc' = "transformer"
    /\ UNCHANGED <<otherThanPipeline, durable, persistedPages, forceRestart, skipScrape,
                   hasRawData>>

\* the transformer child has exited, with code 0 or not
PipelineTransformerExit(code) ==
    /\ ppc = "transformer"
    /\ ppc' = IF code = 0 THEN "complete" ELSE "failed"
    /\ UNCHANGED <<otherThanPipeline, durable, persistedPages, forceRestart, skipScrape,
                   hasRawData, started>>

\* the pipeline and one run of the scraper as its child
PipelineNext ==
    \/ \E u \in {"ok", "throws"} : PipelineLoad(u)
    \/ PipelineMain
    \/ (ppc = "scraper" /\ procState = "down" /\ Startup)
    \/ ScrapeStart
    \/ MainDone
    \/ LoopTop
    \/ Acquire
    \/ \E resp \in Responses, d \in RespTimes : Respond(resp, d)
    \/ \E w \in WriteOutcomes : ProcessPage(w)
    \/ \E w \in WriteOutcomes : Finish(w)
    \/ PipelineScraperExit
    \/ PipelineRunTransformer
    \/ \E code \in {0, 1} : PipelineTransformerExit(code)

SpecPipeline == PipelineInit /\ [][PipelineNext]_vars

TypeOK ==
    /\ procState \in {"down", "running", "raised", "done", "exit1"}
    /\ pc \in {"main", "loop", "acquire", "inflight", "process", "finish"}
    /\ sinceLast \in 0..MIN_REQUEST_INTERVAL
    /\ startAt \in 0..MaxTotal

\* ------------------------------------------------------------- properties
InScrape == procState = "running" /\ pc \in {"loop", "acquire", "inflight", "process", "finish"}

Range(seq) == {seq[i] : i \in 1..Len(seq)}

\* pages of a run that starts at offset off and is never interrupted or limited
RECURSIVE PagesFrom(_, _)
PagesFrom(s, off) ==
    IF Len(ServerIssues(s, off)) = 0 THEN <<>>
    ELSE <<[off |-> off, cnt |-> Len(ServerIssues(s, off))]>>
         \o PagesFrom(s, off + Len(ServerIssues(s, off)))

IsPrefix(a, b) == Len(a) <= Len(b) /\ a = SubSeq(b, 1, Len(a))

EndOfPages(pages) ==
    IF pages = <<>> THEN 0 ELSE pages[Len(pages)].off + pages[Len(pages)].cnt

\* C1: after a crash, every record at an offset below the cursor persisted for
\* a project is present in the project's raw file, so resuming from the
\* persisted cursor loses no completed work.
C1_CompletedWorkSurvivesCrash ==
    procState = "down" =>
        \A s \in Sources : \A o \in 0..(Cursor(progressFile, s) - 1) :
            rawFile[s].state = "valid" /\ o \in Range(rawFile[s].issues)

\* C2: a progress file that exists but does not parse is loaded as an empty
\* mapping; the load never raises.
C2_MalformedProgressNeverRaises == procState # "raised"

\* C3: in a run, after N saved pages the persisted cursor is the run's starting
\* cursor plus the sum of the page counts; over all runs, interrupted or not,
\* the pages whose cursor was persisted are exactly the first pages of an
\* uninterrupted run over the same data (no gap, no overlap), and each request
\* is made at the end of the pages persisted so far.
C3_ResumptionHasNoGapNoOverlap ==
    /\ (InScrape /\ pageCounts # <<>>) =>
          /\ progressFile.state = "valid"
          /\ progressFile.map[cur] = runStart + SumSeq(pageCounts)
    /\ \A s \in Sources :
          /\ IsPrefix(persistedPages[s], PagesFrom(s, 0))
          /\ progressFile.state = "valid" => Cursor(progressFile, s) = EndOfPages(persistedPages[s])
    /\ (procState = "running" /\ pc = "inflight") => startAt = EndOfPages(persistedPages[cur])

C3_Witness ==
    /\ procState = "running" /\ pc = "loop"
    /\ runStart > 0
    /\ pageCounts # <<>>
    /\ Len(persistedPages[cur]) >= 2
    /\ rawFile[cur].state = "absent"

C5_ClientErrorIsFatal ==
    got4xx => (pc = "finish" /\ stop = "FetchFailed")

\* C6: one fetchPageWithRetry call issues at most 5 HTTP attempts.
C6_AtMostFiveAttempts == attemptNumber <= 5

\* C7: after a retryable failure without a server-suggested delay (5xx, network
\* error, empty body), the wait before retry k is min(2s * 2^(k-1), 60s).
C7_BackoffSchedule ==
    (retryLog.k >= 1 /\ retryLog.status # 429) =>
        retryLog.waited = Min(2000 * Pow2(retryLog.k - 1), 60000)

C7_Witness ==
    /\ retryLog.k = 5 /\ retryLog.status = 503
    /\ retryLog.waited = 32000
    /\ pc = "acquire"

C9_RequestsSpaced ==
    /\ nReq >= 2 => lastGap.gap >= MIN_REQUEST_INTERVAL
    /\ nReq >= 1 => elapsed >= (nReq - 1) * MIN_REQUEST_INTERVAL

C9_Witness ==
    /\ pc = "inflight"
    /\ nReq = MaxCounted
    /\ lastGap.slept = MIN_REQUEST_INTERVAL
    /\ projIdx = 2 /\ fetches = 1

\* C10: with a limit L >= 1 and pages that all have the same size P, a run
\* never handles more than ceil(L/P) pages, stops right after page ceil(L/P)
\* with ceil(L/P) fetches and a fetched count in [L, L+P), and the raw file
\* gets every record of every page.
AllPagesOfSize(P) == \A i \in 1..Len(pageCounts) : pageCounts[i] = P
CeilDiv(a, b) == (a + b - 1) \div b
C10_LimitStopsAfterWholePages ==
    (/\ procState = "running"
     /\ projectLimit >= 1
     /\ pageCounts # <<>>
     /\ AllPagesOfSize(pageCounts[1])) =>
        LET P == pageCounts[1]
            L == projectLimit
            need == CeilDiv(L, P)
        IN /\ Len(pageCounts) <= need
           /\ (pc \in {"loop", "acquire", "inflight", "process"}) => Len(pageCounts) < need
           /\ (pc = "finish" /\ stop = "LimitReached") =>
                 /\ fetches = need
                 /\ totalFetched = need * P
                 /\ L <= totalFetched /\ totalFetched < L + P
                 /\ Len(allIssues) = totalFetched
           /\ (pc = "main" /\ stop = "LimitReached") =>
                 /\ fetches = need
                 /\ rawFile[PROJECTS[projIdx - 1]].state = "valid"
                 /\ Len(rawFile[PROJECTS[projIdx - 1]].issues) = need * P

C10_Witness ==
    /\ procState = "running" /\ pc = "main" /\ stop = "LimitReached"
    /\ projectLimit = 3
    /\ pageCounts = <<2, 2>>
    /\ fetches = 2
    /\ Len(rawFile[PROJECTS[projIdx - 1]].issues) = 4

\* C11: a page without issues ends the loop of the project as Exhausted, at
\* any offset and with or without a limit: the step changes neither cursor nor
\* progress, and after it no request is made for the project in this run.
C11_EmptyPageExhausts ==
    /\ [][(procState = "running" /\ pc = "process" /\ Len(issuesOf(data)) = 0
           /\ procState' = "running") =>
             /\ stop' = "Exhausted" /\ pc' = "finish"
             /\ UNCHANGED <<progressFile, progress, startAt, totalFetched, allIssues,
                            fetches>>]_vars
    /\ []((procState = "running" /\ stop = "Exhausted") =>
             /\ pc \in {"finish", "main"}
             /\ Cursor(progressFile, PROJECTS[IF pc = "main" THEN projIdx - 1 ELSE projIdx])
                    = EndOfPages(persistedPages[PROJECTS[IF pc = "main" THEN projIdx - 1
                                                         ELSE projIdx]]))

C11_Witness ==
    /\ procState = "running" /\ pc = "finish" /\ stop = "Exhausted"
    /\ projectLimit = MaxLimit
    /\ startAt > 0
    /\ pageCounts # <<>>
    /\ totalFetched < projectLimit

\* C12: after a fetch that failed for good, scrapeProject of that project
\* returns (its raw file write permitting) and main calls scrapeProject for
\* the next project of PROJECTS.
C12_FailedProjectDoesNotStopMain ==
    /\ (procState = "running" /\ pc = "finish" /\ stop = "FetchFailed") =>
          ENABLED Finish("ok")
    /\ (procState = "running" /\ pc = "main" /\ stop = "FetchFailed") =>
          /\ rawFile[PROJECTS[projIdx - 1]].state = "valid"
          /\ projIdx <= Len(PROJECTS) => ENABLED ScrapeStart

C12_Witness ==
    /\ procState = "running" /\ pc = "main" /\ stop = "FetchFailed"
    /\ projIdx = 2
    /\ ENABLED ScrapeStart

\* C13: the step that ends a fetch in failure changes neither cursor, count,
\* records nor progress (in memory and on disk); at the FetchFailed stop they
\* are what the pages handled before left.
C13_FailedPageContributesNothing ==
    /\ [][(procState = "running" /\ pc = "inflight" /\ stop' = "FetchFailed") =>
             UNCHANGED <<startAt, totalFetched, allIssues, progress, progressFile,
                         rawFile>>]_vars
    /\ []((procState = "running" /\ pc = "finish" /\ stop = "FetchFailed") =>
             /\ startAt = runStart + SumSeq(pageCounts)
             /\ totalFetched = SumSeq(pageCounts)
             /\ allIssues = [i \in 1..totalFetched |-> runStart + i - 1]
             /\ startAt = EndOfPages(persistedPages[cur])
             /\ Cursor(progressFile, cur) = startAt
             /\ initialStartAt(progress[cur]) = startAt)

C13_Witness ==
    /\ procState = "running" /\ pc = "finish" /\ stop = "FetchFailed"
    /\ projIdx = 1
    /\ Len(pageCounts) = 1
    /\ startAt = maxResults

\* C14: when the write of progress.json raises, the run ends and the file
\* still holds the progress saved before.
C14_FailedSaveKeepsProgress ==
    [][(procState = "running" /\ pc = "process" /\ procState' = "exit1") =>
          progressFile' = progressFile]_vars

\* C15: a body that is a bare array of issues is handled like a wrapped one:
\* its issues are appended and the cursor advances by their number.
C15_BareArrayAccepted ==
    [][(procState = "running" /\ pc = "process" /\ data.kind = "array"
        /\ Len(data.issues) > 0 /\ procState' = "running") =>
          /\ allIssues' = allIssues \o data.issues
          /\ startAt' = startAt + Len(data.issues)]_vars

\* C16: when the request for the next page is issued, the issues of every
\* page handled so far in the run are in the project's raw file.
C16_OutputPageByPage ==
    (procState = "running" /\ pc = "inflight") =>
        (allIssues = <<>> \/
         (rawFile[cur].state = "valid" /\ Range(allIssues) \subseteq Range(rawFile[cur].issues)))

\* C17: the rate limiter sleeps at most MIN_REQUEST_INTERVAL and the wait
\* before a retry is at most 60 s, whatever the server answered.
C17_WaitsBounded ==
    /\ lastGap.slept <= 200
    /\ retryLog.k >= 1 => retryLog.waited <= 60000

\* C18: with every attempt completing, a scrapeProject call that entered its
\* loop reaches a break (Exhausted, LimitReached or FetchFailed), unless the
\* process ends first.
C18_LoopTerminates ==
    (procState = "running" /\ pc \in {"loop", "acquire", "inflight", "process"})
        ~> (procState # "running" \/ (pc = "finish" /\ stop # "none"))

C18_Witness ==
    /\ procState = "running" /\ pc = "finish" /\ stop = "FetchFailed"
    /\ projIdx = 2
    /\ Len(pageCounts) = 2

\* C19: every issue that passes the quality filter yields 3 to 7 tasks.
C19_ThreeToSevenTasks ==
    tpc = "written" => (Len(tasks) >= 3 /\ Len(tasks) <= 7)

\* C20: an issue is filtered out only if its trimmed title is shorter than 10
\* characters or its content is shorter than 20 characters.
C20_FilterThresholds ==
    tpc = "skipped" => (issue.summaryLen < 10 \/ issue.descLen < 20)

\* C21: after a 429 the attempt sleeps the Retry-After value taken as seconds
\* when the header is present and 60 s when it is absent, and is then retried.
C21_SuggestedDelayFromHeader ==
    (retryLog.k >= 1 /\ retryLog.status = 429) =>
        LET h == retryLog.retryAfter IN
        /\ h.present => /\ parseInt(h.value) # NaN
                        /\ retryLog.slept = Max(1000 * parseInt(h.value), 1)
        /\ ~h.present => retryLog.slept = 60000
        /\ pc = "acquire" /\ attemptNumber = retryLog.k + 1

\* C22: a 5xx, a network error and an empty body on a success status each lead
\* to another attempt while p-retry has retries left, and to FetchFailed when
\* it has none; an empty body never reaches the page handling.
TransientResponses ==
    {r \in Responses : r.status = 0 \/ r.status >= 500 \/ (r.status = 200 /\ r.body = "empty")}

C22_TransientFailuresRetried ==
    [][\A resp \in TransientResponses, d \in RespTimes :
          Respond(resp, d) =>
             /\ pc' # "process" /\ stop' # "Exhausted"
             /\ IF mayRetry(attemptNumber)
                THEN pc' = "acquire" /\ attemptNumber' = attemptNumber + 1 /\ stop' = "none"
                ELSE pc' = "finish" /\ stop' = "FetchFailed"]_vars

C22_Witness ==
    /\ procState = "running" /\ pc = "acquire"
    /\ retryLog.k = 2 /\ retryLog.status = 200 /\ retryLog.body = "empty"
    /\ attemptNumber = 3

\* C23: a failed attempt that is retried changes nothing the loop looks at, and
\* the body the fetch resolves with is the page at the loop's cursor, whatever
\* the number of attempts; after the page cursor, count, records and saved
\* progress are what one successful attempt gives.
C23_RetriesAreTransparent ==
    /\ [][(procState = "running" /\ pc = "inflight" /\ pc' = "acquire") =>
             UNCHANGED <<startAt, totalFetched, allIssues, progress, progressFile,
                         rawFile, pageCounts, projectLimit>>]_vars
    /\ []((procState = "running" /\ pc = "process") =>
             /\ data.kind \in {"object", "array", "error"}
             /\ data.kind # "error" => data.issues = ServerIssues(cur, startAt))
    /\ []((procState = "running" /\ pc = "loop" /\ pageCounts # <<>>) =>
             /\ startAt = runStart + SumSeq(pageCounts)
             /\ allIssues = [i \in 1..SumSeq(pageCounts) |-> runStart + i - 1]
             /\ progress[cur] = startAt
             /\ progressFile = [state |-> "valid", map |-> progress])

C23_Witness ==
    /\ procState = "running" /\ pc = "loop"
    /\ projIdx = 1 /\ fetches = 1
    /\ nReq = 3
    /\ pageCounts = <<maxResults>>
    /\ progressFile.state = "valid" /\ progressFile.map[cur] = maxResults

\* C24: at most one request is in flight, it is a request of the project main
\* is at, and scrapeProject has returned for every earlier project.
C24_OneRequestAtATime ==
    /\ Cardinality(inFlight) <= 1
    /\ \A r \in inFlight :
          /\ procState = "running" /\ r.project = cur
          /\ \A i, j \in 1..Len(PROJECTS) :
                (r.project = PROJECTS[i] /\ j < i) => PROJECTS[j] \in returned

C24_Witness ==
    /\ inFlight # {}
    /\ projIdx = 2
    /\ returned = {PROJECTS[1]}
    /\ fetches = 2

\* C25: every non-empty page is followed by a save of the new cursor, and a
\* request in flight is at the offset persisted for its project (0 without an
\* entry or without a file).
C25_RequestAtPersistedCursor ==
    /\ [](\A r \in inFlight :
             /\ progressFile.state # "malformed"
             /\ r.off = Cursor(progressFile, r.project))
    /\ [][(procState = "running" /\ pc = "process" /\ Len(issuesOf(data)) > 0
           /\ procState' = "running") =>
             /\ progressFile'.state = "valid"
             /\ progressFile'.map[cur] = startAt'
             /\ startAt' = startAt + Len(issuesOf(data))]_vars

C25_Witness ==
    /\ inFlight = {[project |-> PROJECTS[1], off |-> maxResults]}
    /\ runStart = 0
    /\ Cursor(progressFile, cur) = maxResults

\* C26: a save writes the whole in-memory mapping; in the file only the entry
\* of the project being scraped differs from what the file held before.
C26_SaveChangesOnlyOwnEntry ==
    [][(procState = "running" /\ progressFile' # progressFile
        /\ progressFile'.state = "valid") =>
          /\ progressFile'.map = progress'
          /\ progressFile'.map[cur] = startAt'
          /\ \A s \in Sources \ {cur} :
                progressFile'.map[s] = IF progressFile.state = "valid"
                                       THEN progressFile.map[s] ELSE Null]_vars

C26_Witness ==
    /\ procState = "running" /\ projIdx = 2 /\ pc = "loop"
    /\ pageCounts # <<>>
    /\ PROJECTS[1] \in returned
    /\ progressFile.state = "valid"
    /\ progressFile.map[PROJECTS[1]] > 0
    /\ progressFile.map[PROJECTS[2]] > 0

\* C27: inside a scrapeProject call the count is the cursor minus the cursor
\* the call started from and the number of records held; the three change
\* only together, by the size of a non-empty page.
C27_CountCursorRecordsInStep ==
    /\ [](InScrape =>
             /\ totalFetched = startAt - runStart
             /\ totalFetched = Len(allIssues))
    /\ [][(InScrape /\ InScrape'
           /\ <<startAt, totalFetched, allIssues>>' # <<startAt, totalFetched, allIssues>>) =>
             /\ pc = "process" /\ Len(issuesOf(data)) > 0
             /\ startAt' = startAt + Len(issuesOf(data))
             /\ totalFetched' = totalFetched + Len(issuesOf(data))
             /\ allIssues' = allIssues \o issuesOf(data)]_vars

C27_Witness ==
    /\ procState = "running" /\ pc = "loop"
    /\ runStart > 0
    /\ totalFetched > 0
    /\ startAt = runStart + totalFetched

\* C28: the limit is compared with the records of this call only: the call
\* starts counting at 0 from whatever cursor, requests pages while fewer than
\* L records were fetched in it, and stops as LimitReached only with L or
\* more of them.
C28_LimitCountsThisRun ==
    /\ (procState = "running" /\ pc = "loop" /\ pageCounts = <<>>) => totalFetched = 0
    /\ (procState = "running" /\ stop = "LimitReached") =>
          /\ projectLimit >= 1
          /\ SumSeq(pageCounts) >= projectLimit
          /\ startAt = runStart + SumSeq(pageCounts)
    /\ (procState = "running" /\ pc \in {"acquire", "inflight", "process"}
        /\ projectLimit >= 1) => SumSeq(pageCounts) < projectLimit

C28_Witness ==
    /\ procState = "running" /\ pc = "finish" /\ stop = "LimitReached"
    /\ projectLimit >= 1
    /\ runStart >= projectLimit
    /\ pageCounts # <<>>
    /\ startAt > runStart

C30_TransformerAfterScraper ==
    /\ "transformer" \in Range(started) =>
          \/ "scraper" \in Range(started) /\ procState = "done"
          \/ "scraper" \notin Range(started) /\ skipScrape /\ hasRawData
                /\ rawDataExists(rawFile) /\ procState = "down"
    /\ procState \in {"exit1", "raised"} =>
          /\ "transformer" \notin Range(started)
          /\ ppc \in {"scraper", "failed"}
    /\ ("scraper" \in Range(started) /\ forceRestart /\ procState = "down") =>
          progressFile.state = "absent"
    /\ Len(started) <= 2

C30_Witness ==
    /\ started = <<"scraper", "transformer">>
    /\ forceRestart
    /\ procState = "done"
    /\ ppc = "complete"
    /\ progressFile.state = "valid"

====
